---------------------------- MODULE Spec2Model ----------------------------
(***************************************************************************)
(* Model of the OCPP -> TWC bridge (ocpp2twc).                             *)
(*                                                                         *)
(* The program's state:                                                    *)
(*   twc      the one TWCSimulator of the process (twc.py): the Vitals     *)
(*            fields the bridge's decisions read or write, the             *)
(*            charge-start time and the link flag.                         *)
(*   cps      the ChargePoint objects (server.py), one per accepted        *)
(*            websocket whose message loop has not yet ended.              *)
(*   now      the wall clock read by datetime.now().                       *)
(*   reply    what the last call or handler returned: its name and value.  *)
(* The charge point, the bridge's peer:                                    *)
(*   scenario the events a scripted charge point sends, pos the next one.  *)
(* What an observer of the event stream has seen:                          *)
(*   meter    the cumulative register as reported so far.                  *)
(*   at_stop  per open websocket, the session energy its session had when  *)
(*            the last stop-transaction ended it.                          *)
(* The synthetic charge point of ocpp_client.py, a peer of its own:        *)
(*   sim      the SimulatedChargePoint: its energy counters, flags and     *)
(*            transaction ids, and the iterations its loop has made.       *)
(*                                                                         *)
(* Energies are whole Wh, times whole seconds.  Every handler is one       *)
(* action: the handlers are synchronous functions, run to completion on    *)
(* the event loop.                                                         *)
(***************************************************************************)
EXTENDS Integers, Sequences, FiniteSets

VARIABLES twc, cps, now, reply, scenario, pos, meter, at_stop, sim

vars == <<twc, cps, now, reply, scenario, pos, meter, at_stop, sim>>

\* Bounds of the model.
MaxEnergy == 2
MaxTime == 1
MaxTicks == 10

\* Python's None, for the integer-valued optional fields.
None == 0 - 1

\* The websockets the server may have accepted; two may be open at once.
Connections == {"ws1", "ws2"}

\* The id_tag values a charge point presents.
Tags == {"TEST", "OTHER"}

Energies == 0 .. MaxEnergy
Times == 0 .. MaxTime

Max(a, b) == IF a >= b THEN a ELSE b

(***************************************************************************)
(* twc.py                                                                  *)
(***************************************************************************)

\* Vitals(): the dataclass defaults.
Vitals ==
    [ contactor_closed  |-> FALSE,
      vehicle_connected |-> FALSE,
      session_s         |-> 0,
      relay_coil_v      |-> 0,
      pilot_high_v      |-> 0,
      pilot_low_v       |-> 0,
      session_energy_wh |-> 0,
      total_energy_wh   |-> 0,
      evse_state        |-> 0 ]

\* TWCSimulator.EVSE_STATES
EVSE_STATES == [s \in 0 .. 4 |->
    CASE s = 0 -> "unknown"
      [] s = 1 -> "disabled"
      [] s = 2 -> "ready"
      [] s = 3 -> "charging"
      [] s = 4 -> "error"]

\* TWCSimulator.__init__
TWCSimulator ==
    [ vitals               |-> Vitals,
      charging_start_time  |-> None,
      ocpp_connected       |-> FALSE ]

\* set_enabled without the test for the error state.
set_enabled_out_of_error(s, enabled, t) ==
    IF enabled
    THEN IF s.vitals.vehicle_connected
         THEN [s EXCEPT !.vitals.evse_state = 3,
                        !.vitals.contactor_closed = TRUE,
                        !.charging_start_time =
                            IF s.charging_start_time = None THEN t
                            ELSE s.charging_start_time]
         ELSE [s EXCEPT !.vitals.evse_state = 2]
    ELSE [s EXCEPT !.vitals.evse_state = 1,
                   !.vitals.contactor_closed = FALSE,
                   !.charging_start_time = None]

\* TWCSimulator.set_enabled: the simulator after the call, at clock t.
set_enabled(s, enabled, t) ==
    IF enabled
    THEN IF s.vitals.evse_state = 4
         THEN s
         ELSE IF s.vitals.vehicle_connected
              THEN [s EXCEPT !.vitals.evse_state = 3,
                             !.vitals.contactor_closed = TRUE,
                             !.charging_start_time =
                                 IF s.charging_start_time = None THEN t
                                 ELSE s.charging_start_time]
              ELSE [s EXCEPT !.vitals.evse_state = 2]
    ELSE [s EXCEPT !.vitals.evse_state = 1,
                   !.vitals.contactor_closed = FALSE,
                   !.charging_start_time = None]

\* TWCSimulator.set_enabled: its return value.
set_enabled_result(s, enabled) ==
    ~(enabled /\ s.vitals.evse_state = 4)

\* set_vehicle_connected stamping the charge-start time on every call that
\* finds the simulator ready or charging.
set_vehicle_connected_restamps(s, connected, t) ==
    LET s1 == [s EXCEPT !.vitals.vehicle_connected = connected]
    IN  IF ~connected
        THEN [s1 EXCEPT !.vitals.contactor_closed = FALSE,
                        !.charging_start_time = None,
                        !.vitals.evse_state =
                            IF s1.vitals.evse_state # 1 /\ s1.vitals.evse_state # 4
                            THEN 2 ELSE s1.vitals.evse_state]
        ELSE IF s1.vitals.evse_state \in {2, 3}
             THEN [s1 EXCEPT !.vitals.evse_state = 3,
                             !.vitals.contactor_closed = TRUE,
                             !.charging_start_time = t]
             ELSE s1

\* TWCSimulator.set_vehicle_connected
set_vehicle_connected(s, connected, t) ==
    LET s1 == [s EXCEPT !.vitals.vehicle_connected = connected]
    IN  IF ~connected
        THEN [s1 EXCEPT !.vitals.contactor_closed = FALSE,
                        !.charging_start_time = None,
                        !.vitals.evse_state =
                            IF s1.vitals.evse_state # 1 /\ s1.vitals.evse_state # 4
                            THEN 2 ELSE s1.vitals.evse_state]
        ELSE IF s1.vitals.evse_state = 2
             THEN [s1 EXCEPT !.vitals.evse_state = 3,
                             !.vitals.contactor_closed = TRUE,
                             !.charging_start_time =
                                 IF s1.charging_start_time = None THEN t
                                 ELSE s1.charging_start_time]
             ELSE s1

\* set_error with the contactor left as it was on entering error.
set_error_keeps_contactor(s, has_error, t) ==
    IF has_error
    THEN [s EXCEPT !.vitals.evse_state = 4,
                   !.charging_start_time = None]
    ELSE set_enabled([s EXCEPT !.vitals.evse_state = 1], TRUE, t)

\* set_error that leaves error for disabled without enabling.
set_error_stays_disabled(s, has_error, t) ==
    IF has_error
    THEN [s EXCEPT !.vitals.evse_state = 4,
                   !.vitals.contactor_closed = FALSE,
                   !.charging_start_time = None]
    ELSE [s EXCEPT !.vitals.evse_state = 1]

\* TWCSimulator.set_error
set_error(s, has_error, t) ==
    IF has_error
    THEN [s EXCEPT !.vitals.evse_state = 4,
                   !.vitals.contactor_closed = FALSE,
                   !.charging_start_time = None]
    ELSE set_enabled([s EXCEPT !.vitals.evse_state = 1], TRUE, t)

\* set_ocpp_connected with the flag written only when connecting.
set_ocpp_connected_keeps_flag(s, connected) ==
    IF connected
    THEN [s EXCEPT !.ocpp_connected = TRUE]
    ELSE [s EXCEPT !.vitals.evse_state = 0,
                   !.vitals.contactor_closed = FALSE,
                   !.charging_start_time = None]

\* set_ocpp_connected with the charge-start time left as it was.
set_ocpp_connected_keeps_start_time(s, connected) ==
    IF connected
    THEN [s EXCEPT !.ocpp_connected = TRUE]
    ELSE [s EXCEPT !.ocpp_connected = FALSE,
                   !.vitals.evse_state = 0,
                   !.vitals.contactor_closed = FALSE]

\* TWCSimulator.set_ocpp_connected
set_ocpp_connected(s, connected) ==
    IF connected
    THEN [s EXCEPT !.ocpp_connected = TRUE]
    ELSE [s EXCEPT !.ocpp_connected = FALSE,
                   !.vitals.evse_state = 0,
                   !.vitals.contactor_closed = FALSE,
                   !.charging_start_time = None]

\* A timestamp string: a time in Times (an ISO string with an offset), None
\* (absent), TsInvalid (not ISO: fromisoformat raises ValueError) or TsNaive
\* (ISO without an offset: subtracting the aware charge-start time from it
\* raises TypeError).
TsInvalid == 0 - 2
TsNaive == 0 - 3

\* TWCSimulator.update_from_client raises (the TypeError of line 163, which
\* the except ValueError of line 164 does not catch).
update_from_client_raises(s, timestamp) ==
    s.charging_start_time # None /\ timestamp = TsNaive

\* TWCSimulator.update_from_client: the simulator after the call, also when
\* it raised part-way (the writes before line 163 stay).
update_from_client(s, session_energy, total_energy, timestamp, t) ==
    LET s1 == [s EXCEPT !.vitals.session_energy_wh = session_energy,
                        !.vitals.total_energy_wh = total_energy]
        s2 == IF s1.charging_start_time # None
              THEN IF timestamp # None
                   THEN IF timestamp = TsInvalid
                        THEN [s1 EXCEPT !.vitals.session_s = t - s1.charging_start_time]
                        ELSE [s1 EXCEPT !.vitals.session_s = timestamp - s1.charging_start_time]
                   ELSE s1
              ELSE [s1 EXCEPT !.vitals.session_s = 0]
        lit == IF s2.vitals.evse_state \in {2, 3} THEN 12 ELSE 0
    IN  IF update_from_client_raises(s, timestamp)
        THEN s1
        ELSE [s2 EXCEPT !.vitals.pilot_high_v = lit,
                        !.vitals.pilot_low_v = lit,
                        !.vitals.relay_coil_v =
                            IF s2.vitals.contactor_closed THEN 12 ELSE 0]

\* handle_twc3_request without the link check.
handle_twc3_request_always_snapshot(s, method) ==
    IF method = "GET"
    THEN [status |-> 200, body |-> s.vitals]
    ELSE [status |-> 405, body |-> <<>>]

\* TWCSimulator.handle_twc3_request: the HTTP response.
handle_twc3_request(s, method) ==
    IF method = "GET"
    THEN IF ~s.ocpp_connected
         THEN [status |-> 503,
               body |-> [error |-> "OCPP client not connected",
                         state |-> EVSE_STATES[0],
                         status |-> "offline"]]
         ELSE [status |-> 200, body |-> s.vitals]
    ELSE [status |-> 405, body |-> <<>>]

(***************************************************************************)
(* server.py                                                               *)
(***************************************************************************)

\* ChargingSession: the fields the bridge reads back (transaction_id,
\* meter_start and start_time are stored and only logged).
ChargingSession(id_tag, total_energy_start, session_energy) ==
    [ id_tag             |-> id_tag,
      total_energy_start |-> total_energy_start,
      session_energy     |-> session_energy ]

\* ChargePoint.__init__: the fields of the new object; last_session is a
\* slot holding no or one ChargingSession.
ChargePoint ==
    [ transaction_id |-> None,
      last_session   |-> <<>> ]

\* on_status_notification without the set_error(False) that leaves error.
on_status_notification_no_clear(s, error_code, status, t) ==
    IF error_code # "NoError"
    THEN set_error(s, TRUE, t)
    ELSE IF status = "Charging"
         THEN set_vehicle_connected(s, TRUE, t)
         ELSE IF status \in {"SuspendedEVSE", "SuspendedEV"}
              THEN [set_vehicle_connected(s, TRUE, t)
                        EXCEPT !.vitals.evse_state = 2,
                               !.vitals.contactor_closed = FALSE]
              ELSE set_vehicle_connected(s, FALSE, t)

\* on_status_notification treating the suspended statuses like Charging.
on_status_notification_suspended_charges(s, error_code, status, t) ==
    IF error_code # "NoError"
    THEN set_error(s, TRUE, t)
    ELSE LET s1 == set_error(s, FALSE, t)
         IN  IF status \in {"Charging", "SuspendedEVSE", "SuspendedEV"}
             THEN set_vehicle_connected(s1, TRUE, t)
             ELSE set_vehicle_connected(s1, FALSE, t)

\* on_status_notification entering error only for status Faulted.
on_status_notification_error_if_faulted(s, error_code, status, t) ==
    IF error_code # "NoError" /\ status = "Faulted"
    THEN set_error(s, TRUE, t)
    ELSE LET s1 == set_error(s, FALSE, t)
         IN  IF status = "Charging"
             THEN set_vehicle_connected(s1, TRUE, t)
             ELSE IF status \in {"SuspendedEVSE", "SuspendedEV"}
                  THEN [set_vehicle_connected(s1, TRUE, t)
                            EXCEPT !.vitals.evse_state = 2,
                                   !.vitals.contactor_closed = FALSE]
                  ELSE set_vehicle_connected(s1, FALSE, t)

\* ChargePoint.on_status_notification: the simulator after the handler.
on_status_notification(s, error_code, status, t) ==
    IF error_code # "NoError"
    THEN set_error(s, TRUE, t)
    ELSE LET s1 == set_error(s, FALSE, t)
         IN  IF status = "Charging"
             THEN set_vehicle_connected(s1, TRUE, t)
             ELSE IF status \in {"SuspendedEVSE", "SuspendedEV"}
                  THEN [set_vehicle_connected(s1, TRUE, t)
                            EXCEPT !.vitals.evse_state = 2,
                                   !.vitals.contactor_closed = FALSE]
                  ELSE set_vehicle_connected(s1, FALSE, t)

\* int(timestamp_dt.timestamp()) of on_start_transaction: the time the
\* string holds, the clock when it does not parse.
start_time_of(timestamp, t) ==
    IF timestamp = TsInvalid THEN t ELSE timestamp

\* ChargePoint.on_start_transaction: the charge point object after it.
on_start_transaction(cp, s, id_tag, timestamp, t) ==
    LET restored == cp.last_session # <<>> /\ cp.last_session[1].id_tag = id_tag
        session_energy == IF restored THEN cp.last_session[1].session_energy ELSE 0
    IN  [ transaction_id |-> start_time_of(timestamp, t),
          last_session   |-> << ChargingSession(id_tag,
                                                s.vitals.total_energy_wh,
                                                session_energy) >> ]

\* ChargePoint.on_stop_transaction
on_stop_transaction(cp, transaction_id) ==
    [cp EXCEPT !.transaction_id = None]

\* One reading of a meter-values event, as the handler's parse loop sees
\* it: the Register and the Interval entry's value (None: no such entry),
\* the reading's timestamp, and whether some entry's value is not numeric.
\* ReadingsOver(E, T): the readings with energies in E and timestamps in T.
ReadingsOver(E, T) ==
    [ register  : E \cup {None},
      interval  : E \cup {None},
      timestamp : T,
      malformed : BOOLEAN ]

\* meter_reading with the derived session energy not floored at zero.
meter_reading_no_floor(cp, s, r, t) ==
    LET total_energy == IF r.register = None THEN 0 ELSE r.register
        derive == r.interval = None /\ cp.last_session # <<>>
        cp1 == IF derive
               THEN [cp EXCEPT !.last_session[1].session_energy =
                        total_energy - cp.last_session[1].total_energy_start]
               ELSE cp
        session_energy == IF cp1.last_session # <<>>
                          THEN cp1.last_session[1].session_energy ELSE 0
    IN  [ cp  |-> cp1,
          twc |-> update_from_client(s, session_energy, total_energy, r.timestamp, t),
          raised |-> update_from_client_raises(s, r.timestamp) ]

\* The body of on_meter_values' loop for one reading r that parses: the
\* session record and the simulator after it.
meter_reading(cp, s, r, t) ==
    LET total_energy == IF r.register = None THEN 0 ELSE r.register
        derive == r.interval = None /\ cp.last_session # <<>>
        cp1 == IF derive
               THEN [cp EXCEPT !.last_session[1].session_energy =
                        Max(0, total_energy - cp.last_session[1].total_energy_start)]
               ELSE cp
        session_energy == IF cp1.last_session # <<>>
                          THEN cp1.last_session[1].session_energy ELSE 0
    IN  [ cp  |-> cp1,
          twc |-> update_from_client(s, session_energy, total_energy, r.timestamp, t),
          raised |-> update_from_client_raises(s, r.timestamp) ]

\* ChargePoint.on_meter_values: the readings in turn; float() of a
\* malformed value, or update_from_client, raises out of the loop and the
\* except clause ends the handler.
RECURSIVE on_meter_values(_, _, _, _)
on_meter_values(cp, s, meter_value, t) ==
    IF meter_value = <<>>
    THEN [cp |-> cp, twc |-> s]
    ELSE IF Head(meter_value).malformed
         THEN [cp |-> cp, twc |-> s]
         ELSE LET one == meter_reading(cp, s, Head(meter_value), t)
              IN  IF one.raised
                  THEN [cp |-> one.cp, twc |-> one.twc]
                  ELSE on_meter_values(one.cp, one.twc, Tail(meter_value), t)

\* The register values a meter-values event carries, in order.
RECURSIVE registers_of(_)
registers_of(meter_value) ==
    IF meter_value = <<>> THEN <<>>
    ELSE (IF Head(meter_value).register = None THEN <<>>
          ELSE << Head(meter_value).register >>) \o registers_of(Tail(meter_value))

\* The charge point's register as reported so far: None before the first
\* report, the last value while the reports never decreased, Decreased after
\* the first report below its predecessor.
Decreased == 0 - 2

RECURSIVE report(_, _)
report(m, regs) ==
    IF regs = <<>> THEN m
    ELSE IF m = Decreased \/ (m # None /\ Head(regs) < m)
         THEN Decreased
         ELSE report(Head(regs), Tail(regs))

\* The meter_value lists over a set of readings: the empty list and the
\* lists of one reading.
ListsOf(readings) ==
    {<<>>} \cup { <<r>> : r \in readings }

(***************************************************************************)
(* ocpp_client.py                                                          *)
(***************************************************************************)

\* SimulatedChargePoint.__init__: the fields the charging logic reads or
\* writes; ticks counts the iterations of simulate_power_draw's loop and
\* session_task tells whether start_charging_session has run.
SimulatedChargePoint ==
    [ current_power       |-> 0,
      charging            |-> FALSE,
      vehicle_connected   |-> FALSE,
      session_energy      |-> 0,
      total_energy_wh     |-> 0,
      transaction_id      |-> None,
      last_transaction_id |-> None,
      session_task        |-> "sleeping",
      ticks               |-> 0 ]

\* The energy of one 5 s iteration, in whole Wh: the power is at most
\* max_power = 11000 W (15.28 Wh) and at least 0.98 * 3 * 16 A * 226.5 V
\* - 50 W (14.73 Wh).
Increments == {14, 15}

\* The session energy at which simulate_power_draw stops the charge.
StopThreshold == 100

\* SimulatedChargePoint.start_charging_session from the answer to
\* StartTransaction on: the generator after it.
start_charging_session(g, transaction_id) ==
    [g EXCEPT !.transaction_id = transaction_id,
              !.vehicle_connected = TRUE,
              !.charging = TRUE,
              !.session_task = "done"]

\* `if self.transaction_id:` of stop_charging: None and 0 are false.
has_transaction(g) ==
    g.transaction_id # None /\ g.transaction_id # 0

\* stop_charging with the charging flag left set.
stop_charging_keeps_charging(g) ==
    IF has_transaction(g)
    THEN [g EXCEPT !.last_transaction_id = g.transaction_id,
                   !.transaction_id = None]
    ELSE g

\* SimulatedChargePoint.stop_charging: the generator after it.
stop_charging(g) ==
    IF has_transaction(g)
    THEN [g EXCEPT !.last_transaction_id = g.transaction_id,
                   !.transaction_id = None,
                   !.charging = FALSE]
    ELSE [g EXCEPT !.charging = FALSE]

\* One iteration of simulate_power_draw's loop up to the threshold test:
\* the generator after drawing inc Wh (current_power in W, 720 W per Wh
\* of a 5 s iteration), or after the else branch.
power_draw(g, inc) ==
    IF g.charging /\ g.vehicle_connected
    THEN [g EXCEPT !.current_power = inc * 720,
                   !.session_energy = g.session_energy + inc,
                   !.total_energy_wh = g.total_energy_wh + inc]
    ELSE [g EXCEPT !.current_power = 0]

\* The iteration reaches `await self.stop_charging()`.
stops(g, inc) ==
    /\ g.charging /\ g.vehicle_connected
    /\ power_draw(g, inc).session_energy >= StopThreshold

\* One iteration of simulate_power_draw's loop: the generator after it.
simulate_power_draw(g, inc) ==
    LET g1 == IF stops(g, inc) THEN stop_charging(power_draw(g, inc))
              ELSE power_draw(g, inc)
    IN  [g1 EXCEPT !.ticks = g.ticks + 1]

(***************************************************************************)
(* The state machine                                                       *)
(***************************************************************************)

\* The process after main() built the TWCSimulator and the servers.
Started ==
    /\ twc = TWCSimulator
    /\ cps = [c \in {} |-> 0]
    /\ now = 0
    /\ reply = [op |-> "__init__", ret |-> None]
    /\ pos = 1
    /\ meter = None
    /\ at_stop = [c \in {} |-> 0]
    /\ sim = SimulatedChargePoint

\* No scripted charge point: the events come in any order.
NoScenario == [name |-> "none", events |-> <<>>]

Init ==
    /\ Started
    /\ scenario = NoScenario

\* The scripted and the synthetic charge point stand still.
Idle == UNCHANGED <<scenario, pos, sim>>

\* The clock advances.
Tick ==
    /\ now < MaxTime
    /\ now' = now + 1
    /\ UNCHANGED <<twc, cps, reply, meter, at_stop>>

\* __main__.on_connect up to the first await of ChargePoint.start: the
\* websocket c is accepted and its ChargePoint built.
Connect(c) ==
    /\ c \notin DOMAIN cps
    /\ cps' = [d \in DOMAIN cps \cup {c} |-> IF d = c THEN ChargePoint ELSE cps[d]]
    /\ twc' = set_ocpp_connected(twc, TRUE)
    /\ reply' = [op |-> "on_connect", ret |-> None]
    /\ at_stop' = [d \in DOMAIN cps \cup {c} |-> IF d = c THEN None ELSE at_stop[d]]
    /\ UNCHANGED <<now, meter>>

\* The ways the message loop of ChargePoint.start ends: super().start()
\* returns (the peer closed the websocket) or raises.
Exits == {"returned", "raised"}

\* ChargePoint.start with the cleanup after the try block instead of in a
\* finally clause: an exception skips it.
start_cleanup_on_return(s, how) ==
    IF how = "returned" THEN set_ocpp_connected(s, FALSE) ELSE s

\* ChargePoint.start from the end of the message loop: the except clause
\* logs and re-raises, the finally clause runs on either exit.
start(s, how) ==
    set_ocpp_connected(s, FALSE)

\* The message loop of c ended: ChargePoint.start finishes and on_connect
\* (which logs what start raised) drops the ChargePoint.
Disconnect(c) ==
    /\ c \in DOMAIN cps
    /\ cps' = [d \in DOMAIN cps \ {c} |-> cps[d]]
    /\ \E how \in Exits :
           /\ twc' = start(twc, how)
           /\ reply' = [op |-> "start", ret |-> how]
    /\ at_stop' = [d \in DOMAIN cps \ {c} |-> at_stop[d]]
    /\ UNCHANGED <<now, meter>>

\* The handlers that answer and change nothing: on_boot_notification,
\* on_heartbeat, on_authorize, on_data_transfer.
Acknowledge(c, op) ==
    /\ c \in DOMAIN cps
    /\ reply' = [op |-> op,
                 ret |-> CASE op = "on_boot_notification" -> "BootNotificationPayload"
                           [] op = "on_heartbeat" -> "HeartbeatPayload"
                           [] op = "on_authorize" -> "AuthorizePayload"
                           [] op = "on_data_transfer" -> "DataTransferPayload"]
    /\ UNCHANGED <<twc, cps, now, meter, at_stop>>

StatusNotification(c, error_code, status) ==
    /\ c \in DOMAIN cps
    /\ twc' = on_status_notification(twc, error_code, status, now)
    /\ reply' = [op |-> "on_status_notification", ret |-> "StatusNotificationPayload"]
    /\ UNCHANGED <<cps, now, meter, at_stop>>

StartTransaction(c, id_tag, timestamp) ==
    /\ c \in DOMAIN cps
    /\ cps' = [cps EXCEPT ![c] = on_start_transaction(cps[c], twc, id_tag, timestamp, now)]
    /\ reply' = [op |-> "on_start_transaction", ret |-> cps'[c].transaction_id]
    /\ at_stop' = [at_stop EXCEPT ![c] = None]
    /\ UNCHANGED <<twc, now, meter>>

StopTransaction(c, transaction_id) ==
    /\ c \in DOMAIN cps
    /\ cps' = [cps EXCEPT ![c] = on_stop_transaction(cps[c], transaction_id)]
    /\ reply' = [op |-> "on_stop_transaction", ret |-> "StopTransactionPayload"]
    /\ at_stop' = IF cps[c].transaction_id # None /\ cps[c].last_session # <<>>
                  THEN [at_stop EXCEPT ![c] = cps[c].last_session[1].session_energy]
                  ELSE at_stop
    /\ UNCHANGED <<twc, now, meter>>

MeterValues(c, meter_value) ==
    /\ c \in DOMAIN cps
    /\ LET after == on_meter_values(cps[c], twc, meter_value, now)
       IN  /\ cps' = [cps EXCEPT ![c] = after.cp]
           /\ twc' = after.twc
    /\ meter' = report(meter, registers_of(meter_value))
    /\ reply' = [op |-> "on_meter_values", ret |-> "MeterValuesPayload"]
    /\ UNCHANGED <<now, at_stop>>

\* A request to /api/1/vitals.
Poll(method) ==
    /\ reply' = [op |-> "handle_twc3_request", ret |-> handle_twc3_request(twc, method)]
    /\ UNCHANGED <<twc, cps, now, meter, at_stop>>

\* The TWCSimulator's methods called directly.
SetEnabled(enabled) ==
    /\ twc' = set_enabled(twc, enabled, now)
    /\ reply' = [op |-> "set_enabled", ret |-> set_enabled_result(twc, enabled)]
    /\ UNCHANGED <<cps, now, meter, at_stop>>

SetVehicleConnected(connected) ==
    /\ twc' = set_vehicle_connected(twc, connected, now)
    /\ reply' = [op |-> "set_vehicle_connected", ret |-> TRUE]
    /\ UNCHANGED <<cps, now, meter, at_stop>>

SetError(has_error) ==
    /\ twc' = set_error(twc, has_error, now)
    /\ reply' = [op |-> "set_error", ret |-> None]
    /\ UNCHANGED <<cps, now, meter, at_stop>>

SetOcppConnected(connected) ==
    /\ twc' = set_ocpp_connected(twc, connected)
    /\ reply' = [op |-> "set_ocpp_connected", ret |-> None]
    /\ UNCHANGED <<cps, now, meter, at_stop>>

ErrorCodes == {"NoError", "GroundFailure"}
Statuses == {"Available", "Charging", "SuspendedEVSE", "SuspendedEV", "Faulted"}
Methods == {"GET", "POST"}
Stateless == {"on_boot_notification", "on_heartbeat", "on_authorize", "on_data_transfer"}

\* The whole bridge: every operation with every input of the model.
Next ==
    \/ Tick /\ Idle
    \/ \E c \in Connections : Connect(c) /\ Idle
    \/ \E c \in Connections : Disconnect(c) /\ Idle
    \/ \E c \in Connections, op \in Stateless : Acknowledge(c, op) /\ Idle
    \/ \E c \in Connections, e \in ErrorCodes, st \in Statuses :
           StatusNotification(c, e, st) /\ Idle
    \/ \E c \in Connections, tag \in Tags, ts \in Times \cup {TsInvalid} :
           StartTransaction(c, tag, ts) /\ Idle
    \/ \E c \in Connections, id \in Times : StopTransaction(c, id) /\ Idle
    \/ \E c \in Connections,
          mv \in ListsOf(ReadingsOver(Energies, Times \cup {None, TsInvalid, TsNaive})) :
           MeterValues(c, mv) /\ Idle
    \/ \E m \in Methods : Poll(m) /\ Idle
    \/ \E b \in BOOLEAN : SetEnabled(b) /\ Idle
    \/ \E b \in BOOLEAN : SetVehicleConnected(b) /\ Idle
    \/ \E b \in BOOLEAN : SetError(b) /\ Idle
    \/ \E b \in BOOLEAN : SetOcppConnected(b) /\ Idle

Spec == Init /\ [][Next]_vars

(***************************************************************************)
(* Spec's state space is the product of the EVSE state machine, the clock  *)
(* and one session ledger per open websocket.  TLC explores it through     *)
(* restrictions of Next, each keeping the operations and inputs its claims *)
(* are about and fixing the inputs those operations never read.            *)
(*                                                                         *)
(* SpecLink: the link, the clock and the EVSE state machine.  Both         *)
(* websockets, every status, every TWCSimulator method, every timestamp,   *)
(* polls; meter values carry no energy entries and no transaction starts.  *)
(* No state-machine operation reads an energy or a session.                *)
(*                                                                         *)
(* SpecLedger: the session and energy ledger.  One websocket, connected    *)
(* and reconnected; start, stop and meter values with every energy; polls. *)
(* No ledger operation reads the EVSE state.                               *)
(*                                                                         *)
(* SpecScenario: a scripted charge point sends one of the scenarios below, *)
(* event by event, while the clock runs and a client polls.                *)
(***************************************************************************)
LinkReadings == ReadingsOver({}, Times \cup {None, TsInvalid, TsNaive})

NextLink ==
    \/ Tick /\ Idle
    \/ \E c \in Connections : Connect(c) /\ Idle
    \/ \E c \in Connections : Disconnect(c) /\ Idle
    \/ \E c \in Connections, op \in Stateless : Acknowledge(c, op) /\ Idle
    \/ \E c \in Connections, e \in ErrorCodes, st \in Statuses :
           StatusNotification(c, e, st) /\ Idle
    \/ \E c \in Connections, mv \in ListsOf(LinkReadings) : MeterValues(c, mv) /\ Idle
    \/ \E m \in Methods : Poll(m) /\ Idle
    \/ \E b \in BOOLEAN : SetEnabled(b) /\ Idle
    \/ \E b \in BOOLEAN : SetVehicleConnected(b) /\ Idle
    \/ \E b \in BOOLEAN : SetError(b) /\ Idle
    \/ \E b \in BOOLEAN : SetOcppConnected(b) /\ Idle

SpecLink == Init /\ [][NextLink]_vars

LedgerConnections == {"ws1"}
LedgerReadings == ReadingsOver(Energies, {None})

NextLedger ==
    \/ Tick /\ Idle
    \/ \E c \in LedgerConnections : Connect(c) /\ Idle
    \/ \E c \in LedgerConnections : Disconnect(c) /\ Idle
    \/ \E c \in LedgerConnections, tag \in Tags, ts \in Times \cup {TsInvalid} :
           StartTransaction(c, tag, ts) /\ Idle
    \/ \E c \in LedgerConnections, id \in Times : StopTransaction(c, id) /\ Idle
    \/ \E c \in LedgerConnections, mv \in ListsOf(LedgerReadings) :
           MeterValues(c, mv) /\ Idle
    \/ Poll("GET") /\ Idle

SpecLedger == Init /\ [][NextLedger]_vars

\* An event of a script.
Event(op, id_tag, timestamp, register, interval) ==
    [ op |-> op, id_tag |-> id_tag, timestamp |-> timestamp,
      register |-> register, interval |-> interval ]

Plain(op) == Event(op, "", None, None, None)

\* spec.md section 8, the restart scenario: start-transaction, meter values
\* with total energy e and explicit interval energy e, stop-transaction,
\* start-transaction with the same id_tag.
Restart(tag, e, ts1, ts2) ==
    [ name   |-> "restart",
      events |-> << Plain("connect"),
                    Event("start", tag, ts1, None, None),
                    Event("meter", "", None, e, e),
                    Plain("stop"),
                    Event("start", tag, ts2, None, None) >> ]

\* A transport reconnect: a session accumulates e Wh (derived from the
\* register), is stopped or not, the connection drops, a new one is accepted
\* and the same id_tag starts a transaction.
Reconnect(tag, e, stopped, ts) ==
    [ name   |-> "reconnect",
      events |-> << Plain("connect"),
                    Event("start", tag, ts, None, None),
                    Event("meter", "", None, e, None) >>
                 \o (IF stopped THEN << Plain("stop") >> ELSE <<>>)
                 \o << Plain("disconnect"),
                       Plain("connect"),
                       Event("start", tag, ts, None, None) >> ]

\* A resumed session under a sane meter: a session accumulates e Wh and is
\* stopped; the same id_tag starts again; the register, which never
\* decreases, is reported with interval energy i and then, at r >= e,
\* without an interval entry.
Resume(tag, e, i, r, ts) ==
    [ name   |-> "resume",
      events |-> << Plain("connect"),
                    Event("start", tag, ts, None, None),
                    Event("meter", "", None, e, None),
                    Plain("stop"),
                    Event("start", tag, ts, None, None),
                    Event("meter", "", None, e, i),
                    Event("meter", "", None, r, None) >> ]

\* A status-notification event of a script.
Status(error_code, status) ==
    [ op |-> "status", id_tag |-> "", timestamp |-> None,
      register |-> None, interval |-> None,
      error_code |-> error_code, status |-> status ]

\* Telemetry after a status: the charge point reports status st and then
\* meter values with total energy e and timestamp ts.
Telemetry(st, e, ts) ==
    [ name   |-> "telemetry",
      events |-> << Plain("connect"),
                    Status("NoError", st),
                    Event("meter", "", ts, e, None) >> ]

Scenarios ==
    { Restart(tag, e, ts1, ts2) :
        tag \in Tags, e \in 1 .. MaxEnergy, ts1 \in Times, ts2 \in Times }
    \cup
    { Reconnect(tag, e, stopped, ts) :
        tag \in Tags, e \in 1 .. MaxEnergy, stopped \in BOOLEAN, ts \in Times }
    \cup
    { Resume(tag, e, i, r, ts) :
        tag \in Tags, e \in 1 .. MaxEnergy, i \in 1 .. MaxEnergy,
        r \in 1 .. MaxEnergy, ts \in Times }
    \cup
    { Telemetry(st, e, ts) :
        st \in Statuses, e \in 1 .. MaxEnergy,
        ts \in Times \cup {None, TsInvalid, TsNaive} }

InitScenario ==
    /\ Started
    /\ scenario \in Scenarios

\* The scripted charge point's websocket.
Ws == "ws1"

\* The next event of the script reaches the bridge.
Deliver ==
    /\ pos <= Len(scenario.events)
    /\ pos' = pos + 1
    /\ UNCHANGED <<scenario, sim>>
    /\ LET e == scenario.events[pos]
       IN  CASE e.op = "connect"    -> Connect(Ws)
             [] e.op = "disconnect" -> Disconnect(Ws)
             [] e.op = "start"      -> StartTransaction(Ws, e.id_tag, e.timestamp)
             [] e.op = "stop"       -> StopTransaction(Ws, cps[Ws].transaction_id)
             [] e.op = "status"     -> StatusNotification(Ws, e.error_code, e.status)
             [] e.op = "meter"      ->
                    MeterValues(Ws, << [ register |-> e.register,
                                         interval |-> e.interval,
                                         timestamp |-> e.timestamp,
                                         malformed |-> FALSE ] >>)

ScenarioDone == pos > Len(scenario.events)

NextScenario ==
    \/ Deliver
    \/ Tick /\ Idle
    \/ Poll("GET") /\ Idle

SpecScenario == InitScenario /\ [][NextScenario]_vars

\* The synthetic charge point's start_charging_session, after its
\* asyncio.sleep(5): Authorize, StartTransaction with the clock as
\* timestamp, and the Charging status reach the bridge over Ws.
GeneratorStart ==
    /\ Ws \in DOMAIN cps
    /\ sim.session_task = "sleeping"
    /\ now >= 1
    /\ cps' = [cps EXCEPT ![Ws] = on_start_transaction(cps[Ws], twc, "TEST", now, now)]
    /\ at_stop' = [at_stop EXCEPT ![Ws] = None]
    /\ twc' = on_status_notification(twc, "NoError", "Charging", now)
    /\ sim' = start_charging_session(sim, cps'[Ws].transaction_id)
    /\ reply' = [op |-> "on_status_notification", ret |-> "StatusNotificationPayload"]
    /\ UNCHANGED <<now, meter, scenario, pos>>

\* One iteration of simulate_power_draw's loop; the bridge handles what it
\* sends: StopTransaction and the SuspendedEV status when it stops the
\* charge, then the MeterValues with both energy counters.
GeneratorTick ==
    /\ Ws \in DOMAIN cps
    /\ sim.ticks < MaxTicks
    /\ \E inc \in Increments :
         LET stopping == stops(sim, inc)
             sends_stop == stopping /\ has_transaction(sim)
             cp1 == IF sends_stop
                    THEN on_stop_transaction(cps[Ws], sim.transaction_id)
                    ELSE cps[Ws]
             twc1 == IF stopping
                     THEN on_status_notification(twc, "NoError", "SuspendedEV", now)
                     ELSE twc
             meter_value == << [ register  |-> sim'.total_energy_wh,
                                 interval  |-> sim'.session_energy,
                                 timestamp |-> now,
                                 malformed |-> FALSE ] >>
             after == on_meter_values(cp1, twc1, meter_value, now)
         IN  /\ sim' = simulate_power_draw(sim, inc)
             /\ cps' = [cps EXCEPT ![Ws] = after.cp]
             /\ twc' = after.twc
             /\ at_stop' = IF sends_stop /\ cps[Ws].transaction_id # None
                                        /\ cps[Ws].last_session # <<>>
                           THEN [at_stop EXCEPT ![Ws] = cps[Ws].last_session[1].session_energy]
                           ELSE at_stop
             /\ meter' = report(meter, registers_of(meter_value))
    /\ reply' = [op |-> "on_meter_values", ret |-> "MeterValuesPayload"]
    /\ UNCHANGED <<now, scenario, pos>>

\* SpecGenerator: the synthetic charge point of ocpp_client.py drives the
\* bridge over one websocket that stays open: main() connects, sends the
\* boot notification and the heartbeats; start_charging_session runs once;
\* simulate_power_draw iterates; the clock runs and a client polls.
NextGenerator ==
    \/ Tick /\ Idle
    \/ Connect(Ws) /\ Idle
    \/ \E op \in {"on_boot_notification", "on_heartbeat"} : Acknowledge(Ws, op) /\ Idle
    \/ GeneratorStart
    \/ GeneratorTick
    \/ Poll("GET") /\ Idle

SpecGenerator == Init /\ [][NextGenerator]_vars

(***************************************************************************)
(* The claims                                                              *)
(***************************************************************************)

\* C1 (SpecLink): in every reachable state the contactor is closed only if
\* evse_state is charging (3); so it is open in unknown, disabled and error.
C1_ContactorOnlyWhileCharging ==
    twc.vitals.contactor_closed => twc.vitals.evse_state = 3

\* A status notification closed the contactor.
C1_Witness ==
    /\ twc.vitals.contactor_closed
    /\ twc.vitals.evse_state = 3
    /\ reply.op = "on_status_notification"

\* C2 as stated (SpecLink): in every reachable state, evse_state unknown (0)
\* implies that ocpp_connected is false.
C2_UnknownImpliesLinkDown ==
    twc.vitals.evse_state = 0 => ~twc.ocpp_connected

\* C2 amended (SpecLink): every step that takes evse_state to unknown leaves
\* ocpp_connected false.
C2_UnknownEnteredWithLinkDown ==
    [][ (twc.vitals.evse_state # 0 /\ twc'.vitals.evse_state = 0)
            => ~twc'.ocpp_connected ]_vars

\* A message loop ended after a vehicle had been reported.
C2_Witness ==
    /\ twc.vitals.evse_state = 0
    /\ twc.vitals.vehicle_connected
    /\ ~twc.ocpp_connected
    /\ reply.op = "start"

\* C3 (SpecLedger): a meter-values event with an explicit interval energy,
\* handled while a session record exists, leaves the session's session_energy
\* and the snapshot's session_energy_wh equal to that value.
C3_IntervalEnergyStored ==
    [][ \A c \in DOMAIN cps, r \in LedgerReadings :
            ( /\ reply'.op = "on_meter_values"
              /\ ~r.malformed
              /\ r.interval # None
              /\ cps[c].last_session # <<>>
              /\ MeterValues(c, <<r>>) )
            => /\ cps'[c].last_session[1].session_energy = r.interval
               /\ twc'.vitals.session_energy_wh = r.interval ]_vars

\* C4 (SpecScenario): after the restart scenario (start, meter values with
\* total energy e and interval energy e, stop, start with the same id_tag)
\* the session of the second start has session_energy e.
C4_RestartResumesEnergy ==
    (scenario.name = "restart" /\ ScenarioDone)
        => cps[Ws].last_session[1].session_energy = scenario.events[3].interval

\* C5 (SpecLedger): a start-transaction that follows a stop-transaction and
\* carries the stopped session's id_tag creates a session whose
\* session_energy is the energy the stopped session had at the stop.
C5_ResumesEnergyAtStop ==
    [][ \A c \in DOMAIN cps, tag \in Tags, ts \in Times \cup {TsInvalid} :
            ( /\ reply'.op = "on_start_transaction"
              /\ at_stop[c] # None
              /\ cps[c].last_session[1].id_tag = tag
              /\ StartTransaction(c, tag, ts) )
            => cps'[c].last_session[1].session_energy = at_stop[c] ]_vars

\* C6 (SpecScenario): after the reconnect scenario (a session accumulates
\* e Wh, the connection drops, a new one is accepted, the same id_tag
\* starts a transaction) the new session resumes the e Wh.
C6_ReconnectResumesEnergy ==
    (scenario.name = "reconnect" /\ ScenarioDone)
        => cps[Ws].last_session[1].session_energy = scenario.events[3].register

\* C7 (SpecLink): a GET of the vitals endpoint answers 503 with state
\* "unknown" and status "offline" exactly when ocpp_connected is false, and
\* 200 with the snapshot otherwise; and once the link is down it stays down,
\* so every poll answers 503, until a connect sets it.
C7_PollFollowsLink ==
    [][ /\ Poll("GET") =>
            /\ reply'.ret.status = 503 <=> ~twc.ocpp_connected
            /\ ~twc.ocpp_connected =>
                   /\ reply'.ret.body.state = "unknown"
                   /\ reply'.ret.body.status = "offline"
            /\ twc.ocpp_connected =>
                   /\ reply'.ret.status = 200
                   /\ reply'.ret.body = twc.vitals
        /\ (~twc.ocpp_connected /\ twc'.ocpp_connected)
               => reply'.op \in {"on_connect", "set_ocpp_connected"} ]_vars

\* A poll answered 503 after a link that had reported a vehicle went down.
C7_Witness ==
    /\ reply.op = "handle_twc3_request"
    /\ reply.ret.status = 503
    /\ twc.vitals.vehicle_connected

\* C8 (SpecLink): with the link connected, a status notification NoError /
\* Charging leaves evse_state charging, the contactor closed and the vehicle
\* connected, and a poll taken then returns the snapshot with these values.
C8_ChargingStatus ==
    [][ \A c \in DOMAIN cps :
            ( /\ twc.ocpp_connected
              /\ reply'.op = "on_status_notification"
              /\ StatusNotification(c, "NoError", "Charging") )
            => /\ twc'.vitals.evse_state = 3
               /\ twc'.vitals.contactor_closed
               /\ twc'.vitals.vehicle_connected
               /\ LET r == handle_twc3_request(twc', "GET")
                  IN  /\ r.status = 200
                      /\ r.body.evse_state = 3
                      /\ r.body.contactor_closed
                      /\ r.body.vehicle_connected ]_vars

\* A poll returned the charging snapshot.
C8_Witness ==
    /\ reply.op = "handle_twc3_request"
    /\ reply.ret.status = 200
    /\ reply.ret.body.evse_state = 3
    /\ reply.ret.body.contactor_closed
    /\ reply.ret.body.vehicle_connected

\* C9 (SpecLedger): a meter-values event without an interval entry, handled
\* while a session record exists, leaves the session energy at
\* max(0, total_energy_wh - total_energy_at_start), never negative, and the
\* snapshot shows it.
C9_DerivedEnergyFloored ==
    [][ \A c \in DOMAIN cps, r \in LedgerReadings :
            ( /\ reply'.op = "on_meter_values"
              /\ ~r.malformed
              /\ r.interval = None
              /\ cps[c].last_session # <<>>
              /\ MeterValues(c, <<r>>) )
            => LET total == IF r.register = None THEN 0 ELSE r.register
                   at_start == cps[c].last_session[1].total_energy_start
                   energy == cps'[c].last_session[1].session_energy
               IN  /\ energy = (IF total >= at_start THEN total - at_start ELSE 0)
                   /\ energy >= 0
                   /\ twc'.vitals.session_energy_wh = energy ]_vars

\* A session that started at 1 Wh saw the register at 2 Wh.
C9_Witness ==
    /\ reply.op = "on_meter_values"
    /\ Ws \in DOMAIN cps
    /\ cps[Ws].last_session # <<>>
    /\ cps[Ws].last_session[1].total_energy_start = 1
    /\ twc.vitals.total_energy_wh = 2
    /\ cps[Ws].last_session[1].session_energy = 1
    /\ twc.vitals.session_energy_wh = 1

\* C10 (SpecLedger): while the register values reported so far never
\* decreased, no step lowers the snapshot's total_energy_wh.
C10_TotalNeverDecreases ==
    [][ meter' # Decreased
            => twc'.vitals.total_energy_wh >= twc.vitals.total_energy_wh ]_vars

\* C11 (SpecScenario): between a start-transaction and its stop-transaction,
\* no meter-values event that follows another meter-values event lowers the
\* snapshot's session_energy_wh, also in a session that resumed the energy
\* of a previous session with the same id_tag; the register the scripted
\* charge point reports never decreases.
C11_SessionEnergyNeverDecreases ==
    [][ ( /\ pos > 1
          /\ pos <= Len(scenario.events)
          /\ scenario.events[pos].op = "meter"
          /\ scenario.events[pos - 1].op = "meter"
          /\ scenario.events[pos].register >= scenario.events[pos - 1].register
          /\ Deliver )
        => twc'.vitals.session_energy_wh >= twc.vitals.session_energy_wh ]_vars

\* C12 (SpecLink): set_ocpp_connected(False), called in any reachable state,
\* charging with the contactor closed included, leaves evse_state unknown
\* (0), the contactor open and no charge-start time.
C12_LinkDownResets ==
    [][ ( /\ reply'.op = "set_ocpp_connected"
          /\ SetOcppConnected(FALSE) )
        => /\ twc'.vitals.evse_state = 0
           /\ ~twc'.vitals.contactor_closed
           /\ twc'.charging_start_time = None ]_vars

\* The link was taken down by a direct call after a charge whose closed
\* contactor a meter-values event had shown on the relay.
C12_Witness ==
    /\ reply.op = "set_ocpp_connected"
    /\ ~twc.ocpp_connected
    /\ twc.vitals.vehicle_connected
    /\ twc.vitals.relay_coil_v = 12
    /\ twc.vitals.evse_state = 0
    /\ ~twc.vitals.contactor_closed
    /\ twc.charging_start_time = None

\* C13 (SpecLink): every end of a charge point's message loop, by return or
\* by exception, leaves ocpp_connected false, evse_state unknown (0) and the
\* contactor open: the finally clause has run set_ocpp_connected(False).
C13_LoopEndTakesLinkDown ==
    [][ \A c \in DOMAIN cps :
            ( /\ reply'.op = "start"
              /\ Disconnect(c) )
            => /\ ~twc'.ocpp_connected
               /\ twc'.vitals.evse_state = 0
               /\ ~twc'.vitals.contactor_closed ]_vars

\* A message loop ended with an exception after a vehicle had been
\* reported, while the other websocket was still open.
C13_Witness ==
    /\ reply.op = "start"
    /\ reply.ret = "raised"
    /\ DOMAIN cps # {}
    /\ twc.vitals.vehicle_connected
    /\ ~twc.ocpp_connected
    /\ twc.vitals.evse_state = 0
    /\ ~twc.vitals.contactor_closed

\* C14 (SpecScenario): the snapshot a poll returns after a meter-values
\* event shows the event's writes all together: when it shows the event's
\* total energy it also shows the indicator voltages the event writes, from
\* the state the event was handled in, also when the handler raised.
C14_EventAppliedWhole ==
    [][ ( /\ pos <= Len(scenario.events)
          /\ scenario.events[pos].op = "meter"
          /\ Deliver )
        => LET snap == handle_twc3_request(twc', "GET").body
           IN  snap.total_energy_wh # twc.vitals.total_energy_wh
                   => /\ snap.relay_coil_v = (IF snap.contactor_closed THEN 12 ELSE 0)
                      /\ snap.pilot_high_v = (IF snap.evse_state \in {2, 3} THEN 12 ELSE 0)
                      /\ snap.pilot_low_v = (IF snap.evse_state \in {2, 3} THEN 12 ELSE 0) ]_vars

\* C15 (SpecLink): a set_vehicle_connected(True) that follows a
\* set_vehicle_connected(True), with no other operation in between, changes
\* nothing: evse_state, contactor_closed, vehicle_connected and the
\* charge-start time are those the first call left.
C15_VehicleConnectedIdempotent ==
    [][ ( /\ reply.op = "set_vehicle_connected"
          /\ twc.vitals.vehicle_connected
          /\ reply'.op = "set_vehicle_connected"
          /\ SetVehicleConnected(TRUE) )
        => /\ twc'.vitals.evse_state = twc.vitals.evse_state
           /\ twc'.vitals.contactor_closed = twc.vitals.contactor_closed
           /\ twc'.vitals.vehicle_connected = twc.vitals.vehicle_connected
           /\ twc'.charging_start_time = twc.charging_start_time ]_vars

\* set_vehicle_connected(True) returned on a charging simulator whose
\* charge-start time is earlier than the clock.
C15_Witness ==
    /\ reply.op = "set_vehicle_connected"
    /\ twc.vitals.vehicle_connected
    /\ twc.vitals.evse_state = 3
    /\ twc.vitals.contactor_closed
    /\ twc.charging_start_time # None
    /\ twc.charging_start_time < now

\* C16 (SpecGenerator): the iteration of the synthetic generator in which
\* session_energy reaches the 100 Wh threshold emits a stop-transaction for
\* the active transaction, which the bridge handles, and ends the charge;
\* from then on no step increases session_energy.
C16_StopsAtThreshold ==
    [][ /\ ( sim.session_energy < StopThreshold
              /\ sim'.session_energy >= StopThreshold )
            => /\ sim.transaction_id # None
               /\ sim'.last_transaction_id = sim.transaction_id
               /\ sim'.transaction_id = None
               /\ ~sim'.charging
               /\ cps[Ws].transaction_id = sim.transaction_id
               /\ cps'[Ws].transaction_id = None
               /\ at_stop'[Ws] # None
        /\ sim.session_energy >= StopThreshold
            => sim'.session_energy <= sim.session_energy ]_vars

\* The generator stopped at 100 Wh or more and made a later iteration,
\* which took the else branch (current_power = 0) and left the energy.
C16_Witness ==
    /\ sim.session_energy >= StopThreshold
    /\ sim.last_transaction_id # None
    /\ sim.transaction_id = None
    /\ ~sim.charging
    /\ sim.current_power = 0
    /\ reply.op = "on_meter_values"
    /\ twc.vitals.total_energy_wh = sim.total_energy_wh

\* C17 (SpecLink): in every state a poll can see (the link is up),
\* relay_coil_v is 12 exactly when the contactor is closed, and pilot_high_v
\* and pilot_low_v are 12 exactly when evse_state is ready (2) or charging
\* (3), and 0 otherwise.
C17_VoltagesFollowState ==
    twc.ocpp_connected
        => /\ twc.vitals.relay_coil_v = (IF twc.vitals.contactor_closed THEN 12 ELSE 0)
           /\ twc.vitals.pilot_high_v = (IF twc.vitals.evse_state \in {2, 3} THEN 12 ELSE 0)
           /\ twc.vitals.pilot_low_v = (IF twc.vitals.evse_state \in {2, 3} THEN 12 ELSE 0)

\* C18 (SpecLink): in every reachable state the snapshot's session_s is
\* not negative, whatever timestamps the meter-values readings carried.
C18_SessionSecondsNonNegative ==
    twc.vitals.session_s >= 0

\* C19 (SpecLedger): a stop-transaction whose transaction_id is not the
\* active transaction's leaves the charge point's transaction_id and its
\* remembered session as they were.
C19_ForeignStopIsNoOp ==
    [][ \A c \in DOMAIN cps, id \in Times :
            ( /\ reply'.op = "on_stop_transaction"
              /\ cps[c].transaction_id # None
              /\ id # cps[c].transaction_id
              /\ StopTransaction(c, id) )
            => /\ cps'[c].transaction_id = cps[c].transaction_id
               /\ cps'[c].last_session = cps[c].last_session ]_vars

\* C20 (SpecLedger): a start-transaction handled right after another
\* start-transaction is answered with a transaction_id different from the
\* one the first was answered with.
C20_TransactionIdsDistinct ==
    [][ ( /\ reply.op = "on_start_transaction"
          /\ reply'.op = "on_start_transaction"
          /\ \E c \in DOMAIN cps, tag \in Tags, ts \in Times \cup {TsInvalid} :
                 StartTransaction(c, tag, ts) )
        => reply'.ret # reply.ret ]_vars

\* C21 (SpecLink): set_enabled(True) called in state error (4) returns
\* False and changes nothing: the state stays error, the contactor open and
\* no charge-start time is recorded; every other set_enabled call returns
\* True.
C21_EnableFailsInError ==
    [][ \A b \in BOOLEAN :
            ( /\ reply'.op = "set_enabled"
              /\ SetEnabled(b) )
            => IF b /\ twc.vitals.evse_state = 4
               THEN /\ reply'.ret = FALSE
                    /\ twc' = twc
                    /\ twc'.vitals.evse_state = 4
                    /\ ~twc'.vitals.contactor_closed
                    /\ twc'.charging_start_time = None
               ELSE reply'.ret = TRUE ]_vars

\* set_enabled returned False on a simulator in error with a vehicle
\* connected.
C21_Witness ==
    /\ reply.op = "set_enabled"
    /\ reply.ret = FALSE
    /\ twc.vitals.evse_state = 4
    /\ twc.vitals.vehicle_connected
    /\ ~twc.vitals.contactor_closed

\* C22 (SpecLink): set_error(False), called in any reachable state, ends
\* in charging (3) with the contactor closed when a vehicle is connected and
\* in ready (2) with the contactor open when none is; never in error or
\* disabled.
C22_ClearErrorReenables ==
    [][ ( /\ reply'.op = "set_error"
          /\ SetError(FALSE) )
        => /\ twc'.vitals.vehicle_connected = twc.vitals.vehicle_connected
           /\ twc'.vitals.vehicle_connected
                  => twc'.vitals.evse_state = 3 /\ twc'.vitals.contactor_closed
           /\ ~twc'.vitals.vehicle_connected
                  => twc'.vitals.evse_state = 2 /\ ~twc'.vitals.contactor_closed
           /\ twc'.vitals.evse_state \notin {1, 4} ]_vars

\* set_error(False) resumed the charge of a connected vehicle, with the
\* link down.
C22_Witness ==
    /\ reply.op = "set_error"
    /\ twc.vitals.evse_state = 3
    /\ twc.vitals.contactor_closed
    /\ twc.vitals.vehicle_connected
    /\ twc.charging_start_time = now
    /\ ~twc.ocpp_connected

\* C23 (SpecLink): a status notification NoError / SuspendedEVSE or
\* SuspendedEV, handled in any reachable state, leaves the vehicle
\* connected, evse_state ready (2) and the contactor open.
C23_SuspendedIsReady ==
    [][ \A c \in DOMAIN cps, st \in {"SuspendedEVSE", "SuspendedEV"} :
            ( /\ reply'.op = "on_status_notification"
              /\ StatusNotification(c, "NoError", st) )
            => /\ twc'.vitals.vehicle_connected
               /\ twc'.vitals.evse_state = 2
               /\ ~twc'.vitals.contactor_closed ]_vars

\* A suspended status was handled: ready with a vehicle connected, which
\* no other operation leaves.
C23_Witness ==
    /\ reply.op = "on_status_notification"
    /\ twc.vitals.vehicle_connected
    /\ twc.vitals.evse_state = 2
    /\ ~twc.vitals.contactor_closed
    /\ twc.ocpp_connected

\* C24 (SpecLink): a status notification whose error_code is not NoError,
\* handled in any reachable state and with any status string, leaves
\* evse_state error (4), the contactor open, no charge-start time, and
\* vehicle_connected as it was.
C24_ErrorCodeForcesError ==
    [][ \A c \in DOMAIN cps, e \in ErrorCodes \ {"NoError"}, st \in Statuses :
            ( /\ reply'.op = "on_status_notification"
              /\ StatusNotification(c, e, st) )
            => /\ twc'.vitals.evse_state = 4
               /\ ~twc'.vitals.contactor_closed
               /\ twc'.charging_start_time = None
               /\ twc'.vitals.vehicle_connected = twc.vitals.vehicle_connected ]_vars

\* An error code was handled while a vehicle was connected.
C24_Witness ==
    /\ reply.op = "on_status_notification"
    /\ twc.vitals.evse_state = 4
    /\ twc.vitals.vehicle_connected
    /\ ~twc.vitals.contactor_closed
    /\ twc.charging_start_time = None
    /\ twc.ocpp_connected

\* C25 (SpecLedger): a meter-values event with one malformed entry is
\* acknowledged, and its well-formed Register entry is still written into
\* the snapshot's total_energy_wh.
C25_MalformedEntryDegrades ==
    [][ \A c \in DOMAIN cps, r \in LedgerReadings :
            ( /\ reply'.op = "on_meter_values"
              /\ r.malformed
              /\ r.register # None
              /\ MeterValues(c, <<r>>) )
            => /\ reply'.ret = "MeterValuesPayload"
               /\ twc'.vitals.total_energy_wh = r.register ]_vars

\* C26 (SpecLink): in every reachable state a charge-start time is
\* recorded only while evse_state is charging (3).
C26_TimerOnlyWhileCharging ==
    twc.charging_start_time # None => twc.vitals.evse_state = 3

\* C27 (SpecLink): the end of one charge point's message loop while
\* another connection's loop is still running and the link is up leaves
\* ocpp_connected true and the state as it was.
C27_LateCleanupKeepsLink ==
    [][ \A c \in DOMAIN cps :
            ( /\ reply'.op = "start"
              /\ DOMAIN cps # {c}
              /\ twc.ocpp_connected
              /\ Disconnect(c) )
            => /\ twc'.ocpp_connected
               /\ twc'.vitals.evse_state = twc.vitals.evse_state ]_vars

=============================================================================
